---- MODULE Spec2Model ----
(***************************************************************************)
(* Model of packages/astro/src/vite-plugin-astro/index.ts: the Vite plugin *)
(* that loads .astro files.  One plugin instance (the closure returned     *)
(* by astro()) serves several concurrent load() runs; the host may call    *)
(* configResolved() at any time.  Strings are sequences of tokens, so that *)
(* endsWith / startsWith / includes / replace are computed, not assumed.   *)
(***************************************************************************)
EXTENDS Integers, Sequences, FiniteSets, TLC

(* ------------------------------ bounds --------------------------------- *)
\* number of load() runs the host may have in flight on one plugin instance
NumRuns == 2
\* largest number of <style> blocks in one component file
MaxStyles == 2

Runs == 1..NumRuns

(* --------------------------- string helpers ---------------------------- *)
\* String.prototype.startsWith
StartsWith(s, p) == Len(p) <= Len(s) /\ SubSeq(s, 1, Len(p)) = p

\* String.prototype.endsWith
EndsWith(s, p) == Len(p) <= Len(s) /\ SubSeq(s, Len(s) - Len(p) + 1, Len(s)) = p

\* index of the first occurrence of p in s, 0 when there is none
IndexOf(s, p) ==
  LET hits == {i \in 1..(Len(s) - Len(p) + 1) : SubSeq(s, i, i + Len(p) - 1) = p}
  IN IF hits = {} THEN 0 ELSE CHOOSE i \in hits : \A j \in hits : i <= j

\* String.prototype.includes
Includes(s, p) == IndexOf(s, p) # 0

\* String.prototype.replace(p, '') : removes the first occurrence only
ReplaceFirst(s, p) ==
  LET i == IndexOf(s, p)
  IN IF i = 0 THEN s ELSE SubSeq(s, 1, i - 1) \o SubSeq(s, i + Len(p), Len(s))

\* String.prototype.toLowerCase, on the letters the model uses
LowerChar(c) ==
  CASE c = "S" -> "s"
    [] c = "C" -> "c"
    [] c = "L" -> "l"
    [] c = "E" -> "e"
    [] OTHER -> c

ToLowerCase(s) == [i \in 1..Len(s) |-> LowerChar(s[i])]

(* ------------------------- file URLs and paths ------------------------- *)
\* the part of a file id the URL parser keeps as the path: up to the first ? or #
PathPart(s) ==
  LET cut == {i \in 1..Len(s) : s[i] \in {"?", "#"}}
  IN IF cut = {} THEN s
     ELSE SubSeq(s, 1, (CHOOSE i \in cut : \A j \in cut : i <= j) - 1)

\* length of the first path segment of s (the tokens before the next "/")
SegLen(s) ==
  LET sl == {i \in 1..Len(s) : s[i] = "/"}
  IN IF sl = {} THEN Len(s) ELSE (CHOOSE i \in sl : \A j \in sl : i <= j) - 1

\* the segments of an absolute path: one per "/"
RECURSIVE Segments(_)
Segments(s) ==
  IF s = <<>> \/ s[1] # "/" THEN <<>>
  ELSE LET rest == Tail(s)
           n == SegLen(rest)
       IN <<SubSeq(rest, 1, n)>> \o Segments(SubSeq(rest, n + 1, Len(rest)))

\* the URL parser's dot-segment removal: "." is dropped, ".." pops a segment,
\* and a dot segment in last position leaves a trailing slash
RECURSIVE Resolve(_, _)
Resolve(segs, out) ==
  IF segs = <<>> THEN out
  ELSE LET seg == Head(segs)
           last == Len(segs) = 1
           popped == IF out = <<>> THEN out ELSE SubSeq(out, 1, Len(out) - 1)
       IN IF seg = <<"..">>
          THEN Resolve(Tail(segs), IF last THEN popped \o << <<>> >> ELSE popped)
          ELSE IF seg = <<".">>
          THEN Resolve(Tail(segs), IF last THEN out \o << <<>> >> ELSE out)
          ELSE Resolve(Tail(segs), Append(out, seg))

RECURSIVE Join(_)
Join(segs) == IF segs = <<>> THEN <<>> ELSE <<"/">> \o Head(segs) \o Join(Tail(segs))

\* new URL of file:// followed by the id: the parsed file URL of an absolute file id
NewFileURL(id) == [pathname |-> Join(Resolve(Segments(PathPart(id)), <<>>))]

\* percent-decoding of one escape
DecodeChar(c) == IF c = "%70" THEN "p" ELSE c

\* url.fileURLToPath on a POSIX host: the percent-decoded pathname
fileURLToPath(u) == [i \in 1..Len(u.pathname) |-> DecodeChar(u.pathname[i])]

\* URL.prototype.toString of a file URL
URLToString(u) == <<"file://">> \o u.pathname

(* ------------------------------ JS values ------------------------------ *)
\* the values the host may pass as the second argument of load()
Undefined == [t |-> "undefined"]
JSNull == [t |-> "null"]
JSBool(b) == [t |-> "boolean", b |-> b]
JSNum(n) == [t |-> "number", n |-> n]
JSStr(s) == [t |-> "string", s |-> s]
JSFun == [t |-> "function"]
\* an object; ssr is the value of its ssr property (Undefined when it has none)
JSObj(v) == [t |-> "object", ssr |-> v]

\* the typeof operator
TypeOf(v) == IF v.t = "null" THEN "object" ELSE v.t

\* ToBoolean, as applied by !!v and v || w
Truthy(v) ==
  CASE v.t = "undefined" -> FALSE
    [] v.t = "null" -> FALSE
    [] v.t = "boolean" -> v.b
    [] v.t = "number" -> v.n # 0
    [] v.t = "string" -> v.s # ""
    [] OTHER -> TRUE

\* how an evaluation ends: with a value, or by throwing one
Normal(v) == [threw |-> FALSE, value |-> v]
Throw(e) == [threw |-> TRUE, value |-> e]

(* ------------------------------- errors -------------------------------- *)
\* a thrown value: ref is its identity, hasStack is FALSE for a value with no
\* stack property (a thrown string, a plain object); url is <<>> while unset
ErrorValue(ref, hasStack, message, stack) ==
  [ref |-> ref, hasStack |-> hasStack, message |-> message, stack |-> stack, url |-> <<>>]

\* what the engine throws for a property read on undefined or null
TypeErrorOf(prop) ==
  ErrorValue("TypeError", TRUE, <<"Cannot read properties of undefined or null: ", prop>>,
             <<"TypeError", "\n", "    at ", "load">>)

Marker == <<"wasm-function">>

ErrPlain == ErrorValue("plain", TRUE, <<"boom">>, <<"Error: boom", "\n", "    at ", "native">>)
ErrWasm ==
  ErrorValue("panic", TRUE, <<"unreachable">>,
             <<"RuntimeError: unreachable", "\n", "    at ", "wasm-function", "[12]">>)
ValNoStack == ErrorValue("nostack", FALSE, <<"boom">>, <<>>)

\* what an awaited external step (compiler, style chain, transpiler, fs) may reject with
Raisable == {ErrPlain, ErrWasm, ValNoStack}

(* ------------------------------- isSSR --------------------------------- *)
\* lines 20-31; the property read options.ssr throws on null
isSSR(options) ==
  IF options.t = "undefined" THEN Normal(FALSE)
  ELSE IF TypeOf(options) = "boolean" THEN Normal(options.b)
  ELSE IF TypeOf(options) = "object"
       THEN IF options.t = "null" THEN Throw(TypeErrorOf("ssr"))
            ELSE Normal(Truthy(options.ssr))
  ELSE Normal(FALSE)

(* --------------------------- the style bridge -------------------------- *)
\* the attribute record of a <style> block: present is FALSE when the compiler
\* passes none, hasLang is FALSE when there is no lang attribute
Attrs(present, hasLang, lang) == [present |-> present, hasLang |-> hasLang, lang |-> lang]

\* line 68: the template .${attrs?.lang || css}, lower-cased
LangToken(attrs) ==
  LET lang == IF attrs.present /\ attrs.hasLang /\ attrs.lang # <<>>
              THEN attrs.lang ELSE <<"c", "s", "s">>
  IN ToLowerCase(<<".">> \o lang)

\* a source map value: s is the string itself (t = "string") or what toString()
\* gives (t = "object"); mappings is the mappings property, "" when undefined
MapValue(t, s, mappings) == [t |-> t, s |-> s, mappings |-> mappings]
MapUndefined == MapValue("undefined", "", "")

MapTruthy(m) ==
  CASE m.t = "undefined" -> FALSE
    [] m.t = "null" -> FALSE
    [] m.t = "string" -> m.s # ""
    [] OTHER -> TRUE

\* a slip of lines 74-81: a map object is passed through instead of serialised
NormalizeMapNoToString(m) ==
  IF MapTruthy(m)
  THEN IF m.t = "string" \/ m.mappings # "" THEN m ELSE MapUndefined
  ELSE MapUndefined

\* lines 74-81
NormalizeMap(m) ==
  IF MapTruthy(m)
  THEN IF m.t = "string" THEN m
       ELSE IF m.mappings # "" THEN MapValue("string", m.s, "")
       ELSE MapUndefined
  ELSE MapUndefined

\* what transformWithVite resolves to: null, or an object with code and map
StyleResult(t, code, map) == [t |-> t, code |-> code, map |-> map]

\* lines 70-82: what preprocessStyle returns for the delegate's result
BridgeReturn(result) ==
  IF result.t # "object" THEN result
  ELSE StyleResult("object", result.code, NormalizeMap(result.map))

(* --------------------------- error enrichment -------------------------- *)
IssueTitle == "BUG: @astrojs/compiler panic"

\* URLSearchParams serialisation (application/x-www-form-urlencoded) of one token
EncodeChar(c) ==
  CASE c = "/" -> "%2F"
    [] c = "?" -> "%3F"
    [] c = "%70" -> "%2570"
    [] c = "\n" -> "%0A"
    [] c = "\n\n" -> "%0A%0A"
    [] c = "**" -> "**"
    [] c = "~~~" -> "%7E%7E%7E"
    [] c = "~~~astro" -> "%7E%7E%7Eastro"
    [] c = "### Describe the Bug" -> "%23%23%23+Describe+the+Bug"
    [] c = IssueTitle -> "BUG%3A+%40astrojs%2Fcompiler+panic"
    [] OTHER -> c

Encode(s) == [i \in 1..Len(s) |-> EncodeChar(s[i])]

\* lines 99-107: the body of the issue report
IssueBody(fileId, src, cfg) ==
  <<"### Describe the Bug", "\n\n", "@astrojs/compiler encountered an unrecoverable error", "\n\n", "**">>
    \o ReplaceFirst(fileId, fileURLToPath(cfg.projectRoot))
    \o <<"**", "\n", "~~~astro", "\n">> \o src \o <<"\n", "~~~", "\n">>

\* lines 96-109
IssueURL(fileId, src, cfg) ==
  <<"https://github.com/withastro/astro/issues/new?", "labels=", "compiler", "&", "title=">>
    \o Encode(<<IssueTitle>>) \o <<"&", "body=">> \o Encode(IssueBody(fileId, src, cfg))

\* lines 110-114
IssueMessage(url) ==
  <<"Error: Uh oh, the Astro compiler encountered an unrecoverable error!", "\n\n",
    "Please open", "\n", "a GitHub issue using the link below:", "\n">> \o url

\* a slip of lines 93-120: the stack replacement of line 116 is left out
CatchHandlerKeepStack(err, fileId, src, cfg) ==
  IF ~err.hasStack THEN TypeErrorOf("includes")
  ELSE IF Includes(err.stack, Marker)
       THEN [err EXCEPT !.url = IssueURL(fileId, src, cfg),
                        !.message = IssueMessage(IssueURL(fileId, src, cfg))]
  ELSE err

\* lines 93-120: the value the catch block throws for a caught value err;
\* err.stack.includes is a property read on undefined when err has no stack
CatchHandler(err, fileId, src, cfg) ==
  IF ~err.hasStack THEN TypeErrorOf("includes")
  ELSE IF Includes(err.stack, Marker)
       THEN [err EXCEPT !.url = IssueURL(fileId, src, cfg),
                        !.message = IssueMessage(IssueURL(fileId, src, cfg)),
                        !.stack = <<"    at ">> \o fileId]
  ELSE err

(* ----------------------------- the compiler ---------------------------- *)
\* A component source is a sequence of tokens; "m" is markup and each of the
\* tokens below is one <style> element, which the compiler hands to
\* preprocessStyle as (value, attrs).
StyleTokens == {"<style>", "<style lang=>", "<style lang=SCSS>", "<style lang=Less>", "<style #noattrs>"}

StyleBlockOf(tok) ==
  CASE tok = "<style>" -> [value |-> "a{}", attrs |-> Attrs(TRUE, FALSE, <<>>)]
    [] tok = "<style lang=>" -> [value |-> "b{}", attrs |-> Attrs(TRUE, TRUE, <<>>)]
    [] tok = "<style lang=SCSS>" -> [value |-> "c{d{}}", attrs |-> Attrs(TRUE, TRUE, <<"S", "C", "S", "S">>)]
    [] tok = "<style lang=Less>" -> [value |-> "e{f{}}", attrs |-> Attrs(TRUE, TRUE, <<"L", "e", "s", "s">>)]
    [] OTHER -> [value |-> "g{}", attrs |-> Attrs(FALSE, FALSE, <<>>)]

\* the style blocks of a source, in document order
StyleBlocks(src) == SelectSeq(src, LAMBDA tok : tok \in StyleTokens)

\* the intermediate TypeScript the compiler may resolve to
TsCodes == {"ts1", "ts2"}

\* esbuild.transform on the compiler output: final code and external map
EsbuildResult(code) ==
  IF code = "ts1" THEN [code |-> "js1", map |-> "map1"]
  ELSE IF code = "ts2" THEN [code |-> "js2", map |-> "map2"]
  ELSE [code |-> "js?", map |-> "map?"]

(* ---------------------------- the host side ---------------------------- *)
\* the resolved configurations the host may hand to configResolved
ResolvedConfigs == {"rc1", "rc2"}

\* styles.js getViteTransform: the style transform hook of a resolved config
getViteTransform(rc) == [hookOf |-> rc]

\* the closure variable viteTransform before configResolved has run
NoHook == [hookOf |-> "undefined"]

\* what the host style chain (transformWithVite) may resolve to
StyleMaps ==
  { MapUndefined, MapValue("null", "", ""), MapValue("string", "", ""),
    MapValue("string", "abc", ""), MapValue("object", "X", "AAA"),
    MapValue("object", "[object Object]", ""), MapValue("number", "1", "") }

DelegateResults ==
  {StyleResult("null", "", MapUndefined)} \cup {StyleResult("object", "out{}", m) : m \in StyleMaps}

(* ------------------------------- inputs -------------------------------- *)
FileURL(path) == [pathname |-> path]

\* AstroConfig: pages, layouts and projectRoot are URLs, site an optional string;
\* the pages URL is given with and without its trailing slash
Configs ==
  { [pages |-> FileURL(p), layouts |-> FileURL(<<"/", "w", "/", "l", "/">>),
     projectRoot |-> FileURL(<<"/", "w", "/">>), site |-> site] :
      p \in {<<"/", "w", "/", "p", "/">>, <<"/", "w", "/", "p">>},
      site \in {JSStr("https://example.com"), Undefined} }

Ext == <<".astro">>

IdPage == <<"/", "w", "/", "p", "/", "a", ".astro">>
IdLayout == <<"/", "w", "/", "l", "/", "a", ".astro">>
IdComp == <<"/", "w", "/", "c", "/", "a", ".astro">>
IdDotIn == <<"/", "w", "/", "c", "/", "..", "/", "p", "/", "a", ".astro">>
IdDotOut == <<"/", "w", "/", "p", "/", "..", "/", "c", "/", "a", ".astro">>
IdEncoded == <<"/", "w", "/", "%70", "/", "a", ".astro">>
IdRoot == <<"/", "w", "/", "p", "/", "?", "a", ".astro">>
IdSibling == <<"/", "w", "/", "p", "2", "/", "a", ".astro">>
IdCss == <<"/", "w", "/", "p", "/", "a", ".css">>
IdQuery == <<"/", "w", "/", "c", "/", "a", ".astro", "?", "raw">>

AllIds == {IdPage, IdLayout, IdComp, IdDotIn, IdDotOut, IdEncoded, IdRoot, IdSibling, IdCss, IdQuery}

BasicOpts == {Undefined, JSBool(TRUE)}

AllOpts ==
  { Undefined, JSNull, JSBool(TRUE), JSBool(FALSE),
    JSObj(JSBool(TRUE)), JSObj(JSBool(FALSE)), JSObj(Undefined), JSObj(JSNum(1)),
    JSObj(JSStr("")), JSObj(JSNull), JSNum(0), JSNum(1), JSStr("ssr"), JSFun }

NoError == ErrorValue("none", FALSE, <<>>, <<>>)

File(text) == [ok |-> TRUE, text |-> text, err |-> NoError]
NoFile(e) == [ok |-> FALSE, text |-> <<>>, err |-> e]

\* every component source with at most MaxStyles style blocks
Sources == UNION {{<<"m">> \o s : s \in [1..k -> StyleTokens]} : k \in 0..MaxStyles}

BasicFiles == {File(<<"m">>), File(<<"m", "<style lang=SCSS>">>), NoFile(ErrPlain)}
AllFiles == {File(s) : s \in Sources} \cup {NoFile(e) : e \in Raisable}

CallArgs(fileId, options) == [active |-> TRUE, id |-> fileId, opts |-> options]
NoCall == [active |-> FALSE, id |-> <<>>, opts |-> Undefined]

\* the calls explored one at a time: every id, every options value, every file
Inputs ==
  (AllIds \X BasicOpts \X BasicFiles)
    \cup ({IdComp} \X AllOpts \X BasicFiles)
    \cup ({IdPage} \X {Undefined} \X AllFiles)

\* the calls explored in every interleaving
ConcArgs == {CallArgs(IdPage, Undefined), CallArgs(IdComp, JSBool(TRUE)), CallArgs(IdCss, Undefined)}
ConcFiles == {File(<<"m", "<style>", "<style lang=SCSS>">>), NoFile(ErrPlain)}

\* what the external services (compiler, host style chain, esbuild) may answer:
\* everything when one call is explored, a sample when calls are interleaved;
\* resolved holds the configurations the host resolves in the exploration
AllServices ==
  [raisable |-> Raisable, delegate |-> DelegateResults, ts |-> TsCodes, resolved |-> {"rc1"}]
ConcServices ==
  [raisable |-> {ErrPlain},
   delegate |-> {StyleResult("null", "", MapUndefined), StyleResult("object", "out{}", MapValue("string", "abc", ""))},
   ts |-> {"ts1"},
   resolved |-> ResolvedConfigs]

(* ------------------------------- state --------------------------------- *)
VARIABLES
  config,        \* the AstroConfig the plugin was created with
  platform,      \* closure variable, set by configResolved
  viteTransform, \* closure variable, set by configResolved
  args,          \* per run: the (id, opts) the host calls load with
  disk,          \* per run: what fs.promises.readFile(id) will settle to
  services,      \* the answers the external services may give
  pc,            \* per run: where the async function is suspended
  source,        \* per run: local `source`
  isPage,        \* per run: local `isPage`
  compileReq,    \* per run: the requests sent to the markup compiler
  styleCalls,    \* per run: the calls made to transformWithVite
  lastStyle,     \* per run: the latest delegate result and what the bridge returned for it
  bridgeThrew,   \* per run: the value preprocessStyle rejected with, if it did
  tsResult,      \* per run: local `tsResult`
  transpileReq,  \* per run: the requests sent to esbuild
  steps,         \* per run: the steps invoked so far, in order
  raised,        \* per run: the step that failed and the value it raised
  outcome        \* per run: how load settled

vars == <<config, platform, viteTransform, args, disk, services, pc, source, isPage, compileReq,
          styleCalls, lastStyle, bridgeThrew, tsResult, transpileReq, steps, raised, outcome>>

plugin == <<config, platform, viteTransform>>
world == <<args, disk, services>>

InitLocals ==
  /\ platform = "undefined"
  /\ viteTransform = NoHook
  /\ pc = [r \in Runs |-> "idle"]
  /\ source = [r \in Runs |-> <<>>]
  /\ isPage = [r \in Runs |-> FALSE]
  /\ compileReq = [r \in Runs |-> <<>>]
  /\ styleCalls = [r \in Runs |-> <<>>]
  /\ lastStyle = [r \in Runs |-> <<>>]
  /\ bridgeThrew = [r \in Runs |-> <<>>]
  /\ tsResult = [r \in Runs |-> <<>>]
  /\ transpileReq = [r \in Runs |-> <<>>]
  /\ steps = [r \in Runs |-> <<>>]
  /\ raised = [r \in Runs |-> <<>>]
  /\ outcome = [r \in Runs |-> <<>>]

\* one load call, drawn from Inputs
Init ==
  /\ config \in Configs
  /\ \E in \in Inputs :
       /\ args = [r \in Runs |-> IF r = 1 THEN CallArgs(in[1], in[2]) ELSE NoCall]
       /\ disk = [r \in Runs |-> IF r = 1 THEN in[3] ELSE NoFile(ErrPlain)]
  /\ services = AllServices
  /\ InitLocals

\* NumRuns load calls, each drawn from ConcArgs and ConcFiles
InitConc ==
  /\ config \in Configs
  /\ args \in [Runs -> ConcArgs]
  /\ disk \in [Runs -> ConcFiles]
  /\ services = ConcServices
  /\ InitLocals

(* ------------------------------ the plugin ----------------------------- *)
\* a slip of line 46: any id that mentions the extension is claimed
IsComponentLoose(fileId) == Includes(fileId, Ext)

\* line 46: the files this loader claims
IsComponent(fileId) == EndsWith(fileId, Ext)

\* a slip of lines 51-52: the raw id is compared, not its normalized path
IsPageRaw(fileId, cfg) ==
  \/ StartsWith(fileId, fileURLToPath(cfg.pages))
  \/ StartsWith(fileId, fileURLToPath(cfg.layouts))

\* lines 51-52: pages and layouts are documents, everything else a fragment
IsPage(fileId, cfg) ==
  LET normalizedID == fileURLToPath(NewFileURL(fileId))
  IN \/ StartsWith(normalizedID, fileURLToPath(cfg.pages))
     \/ StartsWith(normalizedID, fileURLToPath(cfg.layouts))

\* lines 60-66: the options handed to the compiler's transform()
TransformOptions(fileId, page, cfg) ==
  [as |-> IF page THEN "document" ELSE "fragment",
   projectRoot |-> URLToString(cfg.projectRoot),
   site |-> cfg.site,
   sourcefile |-> fileId,
   sourcemap |-> "both",
   internalURL |-> "astro/internal"]

\* a slip of line 87: the compiler's map is handed to esbuild instead of its code
EsbuildRequestMap(ts, fileId) ==
  [code |-> ts.map, loader |-> "ts", sourcemap |-> "external", sourcefile |-> fileId]

\* line 87: the request handed to esbuild.transform()
EsbuildRequest(ts, fileId) ==
  [code |-> ts.code, loader |-> "ts", sourcemap |-> "external", sourcefile |-> fileId]

\* lines 68-69: the argument preprocessStyle builds for transformWithVite;
\* evaluating it throws when isSSR(opts) throws
StyleRequest(block, fileId, hook, options) ==
  LET ssr == isSSR(options)
  IN IF ssr.threw THEN ssr
     ELSE Normal([value |-> block.value, lang |-> LangToken(block.attrs), id |-> fileId,
                  transformHook |-> hook, ssr |-> ssr.value])

NoResult == [code |-> "", map |-> ""]
ReturnedNull == [kind |-> "null", result |-> NoResult, err |-> NoError]
Returned(res) == [kind |-> "value", result |-> res, err |-> NoError]
Thrown(e) == [kind |-> "throw", result |-> NoResult, err |-> e]

\* The host resolves its configuration, and calls configResolved, before it
\* asks any plugin to load a file; it may resolve again later (a second build
\* with the same plugin object).
HostReady == viteTransform # NoHook

\* lines 40-43
ConfigResolved ==
  /\ \E rc \in services.resolved : viteTransform' = getViteTransform(rc)
  /\ platform' = "posix"
  /\ UNCHANGED <<config, world, pc, source, isPage, compileReq, styleCalls, lastStyle,
                 bridgeThrew, tsResult, transpileReq, steps, raised, outcome>>

\* lines 45-48: load() of a file that is no component
LoadReject(r) ==
  /\ HostReady /\ args[r].active /\ pc[r] = "idle"
  /\ ~IsComponent(args[r].id)
  /\ outcome' = [outcome EXCEPT ![r] = <<ReturnedNull>>]
  /\ pc' = [pc EXCEPT ![r] = "done"]
  /\ UNCHANGED <<plugin, world, source, isPage, compileReq, styleCalls, lastStyle,
                 bridgeThrew, tsResult, transpileReq, steps, raised>>

\* lines 45-53: load() of a component, up to the awaited readFile
LoadBegin(r) ==
  /\ HostReady /\ args[r].active /\ pc[r] = "idle"
  /\ IsComponent(args[r].id)
  /\ isPage' = [isPage EXCEPT ![r] = IsPage(args[r].id, config)]
  /\ steps' = [steps EXCEPT ![r] = Append(@, "read")]
  /\ pc' = [pc EXCEPT ![r] = "read"]
  /\ UNCHANGED <<plugin, world, source, compileReq, styleCalls, lastStyle,
                 bridgeThrew, tsResult, transpileReq, raised, outcome>>

\* lines 53-84: readFile resolved; transform() is called and awaited
ReadOk(r) ==
  /\ pc[r] = "read" /\ disk[r].ok
  /\ source' = [source EXCEPT ![r] = disk[r].text]
  /\ compileReq' = [compileReq EXCEPT ![r] = Append(@, TransformOptions(args[r].id, isPage[r], config))]
  /\ steps' = [steps EXCEPT ![r] = Append(@, "compile")]
  /\ pc' = [pc EXCEPT ![r] = "compile"]
  /\ UNCHANGED <<plugin, world, isPage, styleCalls, lastStyle, bridgeThrew, tsResult,
                 transpileReq, raised, outcome>>

\* line 53: readFile rejected; the await is outside the try block
ReadFail(r) ==
  /\ pc[r] = "read" /\ ~disk[r].ok
  /\ raised' = [raised EXCEPT ![r] = <<[step |-> "read", value |-> disk[r].err]>>]
  /\ outcome' = [outcome EXCEPT ![r] = <<Thrown(disk[r].err)>>]
  /\ pc' = [pc EXCEPT ![r] = "done"]
  /\ UNCHANGED <<plugin, world, source, isPage, compileReq, styleCalls, lastStyle,
                 bridgeThrew, tsResult, transpileReq, steps>>

\* lines 67-69: the compiler calls preprocessStyle for its next style block
StyleCall(r) ==
  /\ pc[r] = "compile" /\ bridgeThrew[r] = <<>>
  /\ Len(styleCalls[r]) < Len(StyleBlocks(source[r]))
  /\ LET block == StyleBlockOf(StyleBlocks(source[r])[Len(styleCalls[r]) + 1])
         req == StyleRequest(block, args[r].id, viteTransform, args[r].opts)
     IN IF req.threw
        THEN /\ bridgeThrew' = [bridgeThrew EXCEPT ![r] = <<req.value>>]
             /\ UNCHANGED <<styleCalls, pc>>
        ELSE /\ styleCalls' = [styleCalls EXCEPT ![r] = Append(@, req.value)]
             /\ pc' = [pc EXCEPT ![r] = "style"]
             /\ UNCHANGED bridgeThrew
  /\ UNCHANGED <<plugin, world, source, isPage, compileReq, lastStyle, tsResult,
                 transpileReq, steps, raised, outcome>>

\* lines 69-83: transformWithVite resolved; preprocessStyle returns
StyleReturn(r) ==
  /\ pc[r] = "style"
  /\ \E res \in services.delegate :
       lastStyle' = [lastStyle EXCEPT ![r] = <<[result |-> res, returned |-> BridgeReturn(res)]>>]
  /\ pc' = [pc EXCEPT ![r] = "compile"]
  /\ UNCHANGED <<plugin, world, source, isPage, compileReq, styleCalls, bridgeThrew,
                 tsResult, transpileReq, steps, raised, outcome>>

\* line 69: transformWithVite rejected; preprocessStyle rejects with the same value
StyleThrow(r) ==
  /\ pc[r] = "style"
  /\ \E e \in services.raisable : bridgeThrew' = [bridgeThrew EXCEPT ![r] = <<e>>]
  /\ pc' = [pc EXCEPT ![r] = "compile"]
  /\ UNCHANGED <<plugin, world, source, isPage, compileReq, styleCalls, lastStyle,
                 tsResult, transpileReq, steps, raised, outcome>>

\* lines 60-87: transform() resolved; esbuild.transform() is called and awaited
CompileOk(r) ==
  /\ pc[r] = "compile" /\ bridgeThrew[r] = <<>>
  /\ Len(styleCalls[r]) = Len(StyleBlocks(source[r]))
  /\ \E code \in services.ts :
       LET ts == [code |-> code, map |-> "tsmap"]
       IN /\ tsResult' = [tsResult EXCEPT ![r] = <<ts>>]
          /\ transpileReq' = [transpileReq EXCEPT ![r] = Append(@, EsbuildRequest(ts, args[r].id))]
  /\ steps' = [steps EXCEPT ![r] = Append(@, "transpile")]
  /\ pc' = [pc EXCEPT ![r] = "transpile"]
  /\ UNCHANGED <<plugin, world, source, isPage, compileReq, styleCalls, lastStyle,
                 bridgeThrew, raised, outcome>>

\* lines 60, 93-120: transform() rejected (with the value a style block's
\* preprocessing rejected with, when one did); the catch block runs
CompileFail(r) ==
  /\ pc[r] = "compile"
  /\ \E e \in (IF bridgeThrew[r] # <<>> THEN {bridgeThrew[r][1]} ELSE services.raisable) :
       /\ raised' = [raised EXCEPT ![r] = <<[step |-> "compile", value |-> e]>>]
       /\ outcome' = [outcome EXCEPT ![r] = <<Thrown(CatchHandler(e, args[r].id, source[r], config))>>]
  /\ pc' = [pc EXCEPT ![r] = "done"]
  /\ UNCHANGED <<plugin, world, source, isPage, compileReq, styleCalls, lastStyle,
                 bridgeThrew, tsResult, transpileReq, steps>>

\* lines 87-92: esbuild.transform() resolved; load returns its code and map
TranspileOk(r) ==
  /\ pc[r] = "transpile"
  /\ outcome' = [outcome EXCEPT ![r] = <<Returned(EsbuildResult(transpileReq[r][1].code))>>]
  /\ pc' = [pc EXCEPT ![r] = "done"]
  /\ UNCHANGED <<plugin, world, source, isPage, compileReq, styleCalls, lastStyle,
                 bridgeThrew, tsResult, transpileReq, steps, raised>>

\* lines 87, 93-120: esbuild.transform() rejected; the catch block runs
TranspileFail(r) ==
  /\ pc[r] = "transpile"
  /\ \E e \in services.raisable :
       /\ raised' = [raised EXCEPT ![r] = <<[step |-> "transpile", value |-> e]>>]
       /\ outcome' = [outcome EXCEPT ![r] = <<Thrown(CatchHandler(e, args[r].id, source[r], config))>>]
  /\ pc' = [pc EXCEPT ![r] = "done"]
  /\ UNCHANGED <<plugin, world, source, isPage, compileReq, styleCalls, lastStyle,
                 bridgeThrew, tsResult, transpileReq, steps>>

Next ==
  \/ ConfigResolved
  \/ \E r \in Runs : LoadReject(r)
  \/ \E r \in Runs : LoadBegin(r)
  \/ \E r \in Runs : ReadOk(r)
  \/ \E r \in Runs : ReadFail(r)
  \/ \E r \in Runs : StyleCall(r)
  \/ \E r \in Runs : StyleReturn(r)
  \/ \E r \in Runs : StyleThrow(r)
  \/ \E r \in Runs : CompileOk(r)
  \/ \E r \in Runs : CompileFail(r)
  \/ \E r \in Runs : TranspileOk(r)
  \/ \E r \in Runs : TranspileFail(r)

\* one load call at a time, over every input
Spec == Init /\ [][Next]_vars

\* NumRuns load calls, interleaved with each other and with configResolved
SpecConc == InitConc /\ [][Next]_vars

(* ------------------------------- claims -------------------------------- *)
Done(r) == pc[r] = "done"
Settled(r) == outcome[r] # <<>>

\* C1: a file id that does not end in .astro makes load return null, and the
\* run performs no I/O: no read, no compiler request, no style chain call, no
\* transpiler request.
C1_NonComponentReturnsNull ==
  \A r \in Runs :
    (args[r].active /\ ~EndsWith(args[r].id, <<".astro">>)) =>
      /\ steps[r] = <<>> /\ compileReq[r] = <<>> /\ styleCalls[r] = <<>>
      /\ lastStyle[r] = <<>> /\ transpileReq[r] = <<>> /\ raised[r] = <<>>
      /\ pc[r] \in {"idle", "done"}
      /\ (Done(r) => outcome[r] = <<ReturnedNull>>)

\* C1 witness: the load of an id that mentions .astro but ends in a query has returned null
C1_Witness ==
  \E r \in Runs : Done(r) /\ args[r].id = IdQuery /\ outcome[r] = <<ReturnedNull>>

\* the path classification the specification states: normalized path under a root
UnderRoots(fileId) ==
  LET n == fileURLToPath(NewFileURL(fileId))
  IN StartsWith(n, fileURLToPath(config.pages)) \/ StartsWith(n, fileURLToPath(config.layouts))

\* C2: the compiler is invoked with exactly one mode per run, document iff the
\* normalized path starts with the normalized pages or layouts root (a path
\* equal to a root is a document), fragment otherwise.
C2_ModeByPathOnly ==
  \A r \in Runs :
    /\ Len(compileReq[r]) <= 1
    /\ compileReq[r] # <<>> =>
         /\ compileReq[r][1].as \in {"document", "fragment"}
         /\ compileReq[r][1].as = "document" <=> UnderRoots(args[r].id)
         /\ args[r].id \in {IdPage, IdLayout, IdDotIn, IdEncoded, IdRoot} => compileReq[r][1].as = "document"
         /\ args[r].id \in {IdComp, IdDotOut} => compileReq[r][1].as = "fragment"
         /\ args[r].id = IdSibling =>
              (compileReq[r][1].as = "document" <=> config.pages.pathname = <<"/", "w", "/", "p">>)

\* C2 witness: a file whose normalized path equals the pages root, while its raw
\* id does not start with it, was compiled as a document
C2_Witness ==
  \E r \in Runs :
    /\ compileReq[r] # <<>> /\ compileReq[r][1].as = "document"
    /\ fileURLToPath(NewFileURL(args[r].id)) = <<"/", "w", "/", "p", "/">>
    /\ config.pages.pathname = <<"/", "w", "/", "p", "/">>

HasMarker(e) == e.hasStack /\ \E i \in 1..Len(e.stack) : e.stack[i] = "wasm-function"

\* C3: a compiler failure whose stack holds the sandbox marker is thrown as the
\* same error with url = the issue-report URL (fixed labels and title, body
\* embedding the file path and the whole source), message = the fixed text
\* ending in that URL, and stack = the one line "    at <id>".
C3_SandboxFaultEnriched ==
  \A r \in Runs :
    (raised[r] # <<>> /\ raised[r][1].step = "compile" /\ HasMarker(raised[r][1].value)) =>
      /\ Settled(r) /\ outcome[r][1].kind = "throw"
      /\ LET e == outcome[r][1].err
         IN /\ e.ref = raised[r][1].value.ref
            /\ e.stack = <<"    at ">> \o args[r].id
            /\ Len(e.url) > 8
            /\ SubSeq(e.url, 1, 8) =
                 <<"https://github.com/withastro/astro/issues/new?", "labels=", "compiler", "&",
                   "title=", "BUG%3A+%40astrojs%2Fcompiler+panic", "&", "body=">>
            /\ Includes(e.url, Encode(<<"**">> \o SubSeq(args[r].id, 4, Len(args[r].id)) \o <<"**">>))
            /\ Includes(e.url, Encode(<<"~~~astro", "\n">> \o source[r] \o <<"\n", "~~~">>))
            /\ e.message[1] = "Error: Uh oh, the Astro compiler encountered an unrecoverable error!"
            /\ EndsWith(e.message, e.url)

\* C3 witness: the compiler panicked on a source with a style block, and load has thrown
C3_Witness ==
  \E r \in Runs :
    /\ Done(r) /\ raised[r] # <<>> /\ raised[r][1].step = "compile"
    /\ raised[r][1].value = ErrWasm
    /\ Len(source[r]) > 1
    /\ outcome[r][1].err.stack = <<"    at ">> \o args[r].id

\* C4: a value raised by the compile or transpile step whose trace does not
\* carry the sandbox marker (a value without a stack trace included) is thrown
\* by load as it is: same value, message and stack unchanged.
C4_OtherFailuresPassThrough ==
  \A r \in Runs :
    (raised[r] # <<>> /\ raised[r][1].step \in {"compile", "transpile"}
       /\ ~HasMarker(raised[r][1].value)) =>
      outcome[r] = <<Thrown(raised[r][1].value)>>

\* C5: an error raised by the file read or by the transpiler reaches the host
\* unmodified, also when its stack trace holds the sandbox marker.
C5_OnlyCompilerFailuresEnriched ==
  \A r \in Runs :
    (raised[r] # <<>> /\ raised[r][1].step \in {"read", "transpile"}
       /\ raised[r][1].value.hasStack) =>
      outcome[r] = <<Thrown(raised[r][1].value)>>

\* the boolean the specification assigns to a transform-options value
ExpectedSSR(o) ==
  CASE o.t = "boolean" -> o.b
    [] o.t = "object" -> (o.ssr.t = "boolean" /\ o.ssr.b) \/ (o.ssr.t = "number" /\ o.ssr.n # 0)
                           \/ (o.ssr.t = "string" /\ o.ssr.s # "") \/ o.ssr.t \in {"object", "function"}
    [] OTHER -> FALSE

\* C6: isSSR gives one boolean for every input and never fails: false for
\* undefined, the boolean itself, the truthiness of an object's ssr field,
\* false for every other defined value.
C6_isSSRTotal ==
  \A r \in Runs :
    /\ bridgeThrew[r] # <<TypeErrorOf("ssr")>>
    /\ \A i \in 1..Len(styleCalls[r]) : styleCalls[r][i].ssr = ExpectedSSR(args[r].opts)

\* C7 as stated: the bridge returns nothing when the delegate does; otherwise
\* the delegate's code with a map that is the delegate's map when it is a
\* string, its string form when it is an object with non-empty mappings, and
\* absent for every other shape.
C7_MapNormalizedAsStated ==
  \A r \in Runs :
    lastStyle[r] # <<>> =>
      LET res == lastStyle[r][1].result
          out == lastStyle[r][1].returned
      IN IF res.t # "object" THEN out = res
         ELSE /\ out.t = "object" /\ out.code = res.code
              /\ out.map = (IF res.map.t = "string" THEN res.map
                            ELSE IF res.map.t = "object" /\ res.map.mappings # ""
                                 THEN [t |-> "string", s |-> res.map.s, mappings |-> ""]
                            ELSE [t |-> "undefined", s |-> "", mappings |-> ""])

\* C7 amended: as stated, except that a string map is kept as it is only when
\* it is non-empty; an empty string map gives no map.
C7_MapNormalized ==
  \A r \in Runs :
    lastStyle[r] # <<>> =>
      LET res == lastStyle[r][1].result
          out == lastStyle[r][1].returned
      IN IF res.t # "object" THEN out = res
         ELSE /\ out.t = "object" /\ out.code = res.code
              /\ out.map = (IF res.map.t = "string" /\ res.map.s # "" THEN res.map
                            ELSE IF res.map.t = "object" /\ res.map.mappings # ""
                                 THEN [t |-> "string", s |-> res.map.s, mappings |-> ""]
                            ELSE [t |-> "undefined", s |-> "", mappings |-> ""])

\* C7 witness: the delegate answered with a map object that has mappings, and
\* the bridge returned its string form
C7_Witness ==
  \E r \in Runs :
    /\ lastStyle[r] # <<>>
    /\ lastStyle[r][1].result.map = [t |-> "object", s |-> "X", mappings |-> "AAA"]
    /\ lastStyle[r][1].returned.map = [t |-> "string", s |-> "X", mappings |-> ""]

\* the language token the specification assigns to a style element
ExpectedLang(tok) ==
  CASE tok = "<style lang=SCSS>" -> <<".", "s", "c", "s", "s">>
    [] tok = "<style lang=Less>" -> <<".", "l", "e", "s", "s">>
    [] OTHER -> <<".", "c", "s", "s">>

\* C8: for every style block the compiler hands to the bridge, the bridge
\* calls the host style chain exactly once, with the block's text, the token
\* "." + lower-cased lang (".css" without one), the run's file id and the
\* boolean isSSR derives from the run's options.
C8_StyleChainCalledPerBlock ==
  \A r \in Runs :
    /\ bridgeThrew[r] # <<>> => bridgeThrew[r][1] \in Raisable
    /\ Len(styleCalls[r]) <= Len(StyleBlocks(source[r]))
    /\ \A i \in 1..Len(styleCalls[r]) :
         LET tok == StyleBlocks(source[r])[i]
             call == styleCalls[r][i]
         IN /\ call.value = StyleBlockOf(tok).value
            /\ call.lang = ExpectedLang(tok)
            /\ call.id = args[r].id
            /\ call.ssr = ExpectedSSR(args[r].opts)

AllSteps == <<"read", "compile", "transpile">>

\* C9: read, compile, transpile are each invoked at most once and in that
\* order, a step only after the earlier ones succeeded (the transpiler gets the
\* compiler's code), and the run ends in exactly one outcome: the transpiler's
\* code and map, or the throw of the first failing step with nothing after it.
C9_StepsInOrderOneOutcome ==
  \A r \in Runs :
    (args[r].active /\ EndsWith(args[r].id, <<".astro">>)) =>
      /\ Len(steps[r]) <= 3 /\ steps[r] = SubSeq(AllSteps, 1, Len(steps[r]))
      /\ Len(compileReq[r]) = (IF Len(steps[r]) >= 2 THEN 1 ELSE 0)
      /\ Len(transpileReq[r]) = (IF Len(steps[r]) = 3 THEN 1 ELSE 0)
      /\ Len(steps[r]) >= 2 => disk[r].ok /\ source[r] = disk[r].text
      /\ Len(steps[r]) = 3 =>
           /\ tsResult[r] # <<>> /\ bridgeThrew[r] = <<>>
           /\ transpileReq[r][1].code = tsResult[r][1].code
           /\ transpileReq[r][1].sourcefile = args[r].id
      /\ Len(outcome[r]) <= 1 /\ Len(raised[r]) <= 1
      /\ Settled(r) <=> Done(r)
      /\ (~Done(r)) => raised[r] = <<>>
      /\ (Done(r) /\ raised[r] = <<>>) =>
           /\ steps[r] = AllSteps
           /\ outcome[r][1].kind = "value"
           /\ outcome[r][1].result = EsbuildResult(tsResult[r][1].code)
      /\ (Done(r) /\ raised[r] # <<>>) =>
           /\ outcome[r][1].kind = "throw"
           /\ steps[r] # <<>> /\ steps[r][Len(steps[r])] = raised[r][1].step

\* C9 witness: one run that returned after all three steps
C9_Witness ==
  \E r \in Runs :
    /\ Done(r) /\ steps[r] = AllSteps /\ outcome[r][1].kind = "value"
    /\ outcome[r][1].result = [code |-> "js2", map |-> "map2"]
    /\ Len(styleCalls[r]) = MaxStyles

\* C10: under every interleaving of load runs with each other and with
\* configResolved, a run uses one configuration snapshot: the style transform
\* hook is set before a run uses it and is the same for every style block of
\* the run.
C10_OneSnapshotPerRun ==
  \A r \in Runs :
    \A i, j \in 1..Len(styleCalls[r]) :
      /\ styleCalls[r][i].transformHook # NoHook
      /\ styleCalls[r][i].transformHook = styleCalls[r][j].transformHook

====
